---- MODULE Spec2Model ----
(***************************************************************************)
(* Model of strollin: app.py (main loop with the cooldown table),          *)
(* faces.py (load_known_faces, recognize_faces) and spotify_client.py      *)
(* (SpotifyClient.__init__, SpotifyClient.play_for).                       *)
(*                                                                         *)
(* Representation choices                                                  *)
(*  - time.time() is an integer number of seconds.                         *)
(*  - a face encoding is one integer, in tenths of the library's distance  *)
(*    unit; the distance of two encodings is the absolute difference, and  *)
(*    compare_faces is "distance <= tolerance" per known encoding.         *)
(*  - a Spotify URI is the sequence of its ':'-separated segments, so      *)
(*    "spotify:track:123" is <<"spotify","track","123">> and the empty     *)
(*    string is << >>.                                                     *)
(*  - Python's None / a value is << >> / <<v>> (None, Some).               *)
(***************************************************************************)
EXTENDS Integers, Sequences, FiniteSets, TLC

\* ------------------------------------------------------------------ bounds
\* largest value time.time() takes in the model
MaxTime == 11
\* largest number of files in one person directory
MaxFiles == 2
\* largest number of faces detected in one frame
MaxFaces == 2

\* --------------------------------------------------------- program constants
\* app.py:27
COOLDOWN_SECONDS == 10
\* faces.py:68, tolerance=0.5 in tenths
Tolerance == 5

\* ------------------------------------------------------------------ helpers
None == << >>
Some(x) == <<x>>

\* person labels (directory names, mapping keys)
Labels == {"Alice", "Bob"}
\* encodings that reference images can have
KnownEmbeddings == {0, 4}
\* encodings that faces in a camera frame can have
FrameEmbeddings == {0, 4, 8, 14}

\* all sequences over S of length at most n
SeqsUpTo(S, n) == UNION {[1..k -> S] : k \in 0..n}

\* ------------------------------------------------------------ faces.py
\* What the library yields for one image file: load_image_file/face_encodings
\* raise (loads = FALSE), or face_encodings returns a list of encodings.
Files ==
    {[loads |-> FALSE, face_encs |-> << >>]} \cup
    {[loads |-> TRUE, face_encs |-> fe] :
        fe \in {<< >>, <<0>>, <<4>>, <<4, 0>>}}

\* One entry of os.listdir(known_dir): a person directory with its files, or
\* something that is not a directory.
DirEntries ==
    {[name |-> n, isdir |-> FALSE, files |-> << >>] : n \in Labels} \cup
    {[name |-> n, isdir |-> TRUE, files |-> fs] :
        n \in Labels, fs \in SeqsUpTo(Files, MaxFiles)}

\* The known_faces directory: absent, or a listing with distinct entry names.
DirInputs ==
    {[exists |-> FALSE, entries |-> << >>]} \cup
    {[exists |-> TRUE, entries |-> es] :
        es \in {s \in SeqsUpTo(DirEntries, Cardinality(Labels)) :
                   \A i, j \in 1..Len(s) : i # j => s[i].name # s[j].name}}

\* load_person with names.append outside the "if face_encs" test
RECURSIVE load_person_names_always(_, _, _)
load_person_names_always(files, person_name, acc) ==
    IF files = << >> THEN acc
    ELSE LET f == Head(files)
             next == IF f.loads
                     THEN <<IF f.face_encs # << >>
                            THEN Append(acc[1], f.face_encs[1]) ELSE acc[1],
                            Append(acc[2], person_name)>>
                     ELSE acc
         IN load_person_names_always(Tail(files), person_name, next)

\* faces.py:54-64, the inner loop over the files of one person directory;
\* acc is <<encodings, names>>.
RECURSIVE load_person(_, _, _)
load_person(files, person_name, acc) ==
    IF files = << >> THEN acc
    ELSE LET f == Head(files)
             next == IF f.loads /\ f.face_encs # << >>
                     THEN <<Append(acc[1], f.face_encs[1]),
                            Append(acc[2], person_name)>>
                     ELSE acc
         IN load_person(Tail(files), person_name, next)

\* faces.py:50-53, the outer loop over os.listdir(known_dir)
RECURSIVE load_entries(_, _)
load_entries(entries, acc) ==
    IF entries = << >> THEN acc
    ELSE LET e == Head(entries)
             next == IF ~e.isdir THEN acc
                     ELSE load_person(e.files, e.name, acc)
         IN load_entries(Tail(entries), next)

\* faces.py:45-65
load_known_faces(dir) ==
    IF ~dir.exists THEN << << >>, << >> >>
    ELSE load_entries(dir.entries, << << >>, << >> >>)

\* face_recognition.compare_faces as called at faces.py:96
compare_faces(encodings, enc, tolerance) ==
    [i \in 1..Len(encodings) |->
        (IF encodings[i] >= enc THEN encodings[i] - enc
                                ELSE enc - encodings[i]) <= tolerance]

\* index_true taking the last match instead of the first
RECURSIVE index_last(_, _)
index_last(matches, i) ==
    IF \E j \in (i + 1)..Len(matches) : matches[j]
    THEN index_last(matches, i + 1)
    ELSE i

\* list.index(True), faces.py:98
RECURSIVE index_true(_, _)
index_true(matches, i) ==
    IF matches[i] THEN i ELSE index_true(matches, i + 1)

\* faces.py:94-100, the loop over the encodings of the detected faces
RECURSIVE recognize_loop(_, _, _, _)
recognize_loop(encs, encodings, knames, results) ==
    IF encs = << >> THEN results
    ELSE LET matches == compare_faces(encodings, Head(encs), Tolerance)
             next == IF \E i \in 1..Len(matches) : matches[i]
                     THEN Append(results, knames[index_true(matches, 1)])
                     ELSE results
         IN recognize_loop(Tail(encs), encodings, knames, next)

\* faces.py:83-100; a frame is the sequence of encodings of its faces
recognize_faces(fr, encodings, knames) ==
    IF encodings = << >> THEN << >>
    ELSE recognize_loop(fr, encodings, knames, << >>)

\* ------------------------------------------------------- spotify_client.py
\* URIs the mapping file can hold, the empty string among them
URIs ==
    { << >>,
      <<"spotify", "track", "123">>,
      <<"spotify", "track", "">>,
      <<"spotify", "track">>,
      <<"spotify", "playlist", "456">>,
      <<"spotify", "album", "7">> }

\* A value of the JSON object: a string (a URI, possibly empty), or a value
\* that is not a string, truthy (a non-zero number, a non-empty array or
\* object, true) or falsy (0, [], {}, false, null).
Str(u) == [isstr |-> TRUE, truthy |-> u # << >>, uri |-> u]
NonStr(t) == [isstr |-> FALSE, truthy |-> t, uri |-> << >>]
Values == {Str(u) : u \in URIs} \cup {NonStr(t) : t \in BOOLEAN}

\* name -> value dictionaries, with any subset of the labels as keys
MappingInputs == UNION {[D -> Values] : D \in SUBSET Labels}

\* A value json.load can return: a dict (JSON object) with its items, or
\* something that is not a dict (JSON array, string, number, null).
EmptyDict == [dict |-> TRUE, items |-> << >>]
NotADict == [dict |-> FALSE, items |-> << >>]

\* mappings.json: unreadable/unparseable, a JSON object, or well-formed JSON
\* that is not an object
MappingFiles ==
    {[readable |-> FALSE, json |-> EmptyDict]} \cup
    {[readable |-> TRUE, json |-> [dict |-> TRUE, items |-> m]] :
        m \in MappingInputs} \cup
    {[readable |-> TRUE, json |-> NotADict]}

\* spotify_client.py:87-92: whatever json.load returns is stored; only a
\* failure to open or parse gives the empty dict
load_mappings(file) ==
    IF file.readable THEN file.json ELSE EmptyDict

\* dict.get(name), spotify_client.py:109, on the items of a dict
get(m, name) ==
    IF name \in DOMAIN m THEN Some(m[name]) ELSE None

\* what self.mappings.get(name) raises when self.mappings is not a dict:
\* AttributeError, outside the try of spotify_client.py:113
GetRaises == [calls |-> << >>, printed |-> "", raised |-> TRUE]

\* what uri.startswith does for a truthy uri that is not a string: it raises
\* AttributeError inside the try (spotify_client.py:115), the except of line
\* 121 prints it, and no start_playback call has been made
StartswithRaises ==
    [calls |-> << >>, printed |-> "Spotify API error", raised |-> FALSE]

\* the prefix 'spotify:track:' of spotify_client.py:115, as segments; the
\* trailing ':' makes a third segment (possibly empty) follow
TrackPrefix == <<"spotify", "track">>

\* startswith testing the first segment only
startswith_scheme(uri, prefix) ==
    Len(uri) > Len(prefix) /\ uri[1] = prefix[1]

\* str.startswith for a prefix that ends in ':'
startswith(uri, prefix) ==
    /\ Len(uri) > Len(prefix)
    /\ \A i \in 1..Len(prefix) : uri[i] = prefix[i]

\* play_for without the try/except around start_playback
play_for_raises(m, name, api_ok) ==
    IF ~m.dict THEN GetRaises ELSE
    LET uri == get(m.items, name) IN
    IF uri = None \/ ~uri[1].truthy
    THEN [calls |-> << >>, printed |-> "No mapping found", raised |-> FALSE]
    ELSE IF ~uri[1].isstr THEN StartswithRaises
    ELSE LET u == uri[1].uri
             call == IF startswith(u, TrackPrefix)
                     THEN [uris |-> Some(<<u>>), context_uri |-> None]
                     ELSE [uris |-> None, context_uri |-> Some(u)]
         IN [calls |-> <<call>>,
             printed |-> IF api_ok THEN "Started playback"
                                   ELSE "Spotify API error",
             raised |-> ~api_ok]

\* spotify_client.py:109-123.  api_ok: whether start_playback returns (TRUE)
\* or raises (FALSE).  The result lists the start_playback calls made, what
\* was printed and whether an exception left play_for (only the
\* AttributeError of line 109 does: the except of line 121 catches the rest,
\* the AttributeError of uri.startswith on a non-string value included).
play_for(m, name, api_ok) ==
    IF ~m.dict THEN GetRaises ELSE
    LET uri == get(m.items, name) IN
    IF uri = None \/ ~uri[1].truthy
    THEN [calls |-> << >>, printed |-> "No mapping found", raised |-> FALSE]
    ELSE IF ~uri[1].isstr THEN StartswithRaises
    ELSE LET u == uri[1].uri
             call == IF startswith(u, TrackPrefix)
                     THEN [uris |-> Some(<<u>>), context_uri |-> None]
                     ELSE [uris |-> None, context_uri |-> Some(u)]
         IN [calls |-> <<call>>,
             printed |-> IF api_ok THEN "Started playback"
                                   ELSE "Spotify API error",
             raised |-> FALSE]

\* ------------------------------------------------------------------ app.py
\* camera frames: the encodings of the faces the library detects in them
Frames == SeqsUpTo(FrameEmbeddings, MaxFaces)

\* the cooldown test with the comparison inverted
eligible_inverted(ls, name, t) ==
    name \notin DOMAIN ls \/ (t - ls[name]) < COOLDOWN_SECONDS

\* the cooldown test without the timestamp comparison
eligible_once(ls, name, t) ==
    name \notin DOMAIN ls

\* the cooldown test without the "not in last_seen" case
eligible_known_only(ls, name, t) ==
    name \in DOMAIN ls /\ (t - ls[name]) > COOLDOWN_SECONDS

\* app.py:78
eligible(ls, name, t) ==
    name \notin DOMAIN ls \/ (t - ls[name]) > COOLDOWN_SECONDS

VARIABLES
    pc,               \* position of main
    known_dir,        \* the known_faces directory (environment)
    mappings_file,    \* mappings.json (environment)
    backend_ok,       \* face_recognition can be imported
    client_ok,        \* spotipy is present and the three credentials are set
    known_encodings,  \* app.py:56
    known_names,      \* app.py:56
    mappings,         \* SpotifyClient.mappings
    last_seen,        \* app.py:61, the cooldown table
    cap,              \* the camera: "none", "unopened", "acquired", "released"
    frame,            \* app.py:70
    names,            \* app.py:74
    idx,              \* position of the for loop of app.py:76 in names
    now,              \* app.py:77; also the last value time.time() returned
    result,           \* outcome of the last play_for call
    played,           \* history: per label, the times of the play_for calls
    last_printed,     \* history: per label, what its last play_for printed
    stamped,          \* history: per label, the times written to last_seen
    exit_how          \* how main ended

vars == <<pc, known_dir, mappings_file, backend_ok, client_ok,
          known_encodings, known_names, mappings, last_seen, cap, frame,
          names, idx, now, result, played, last_printed, stamped, exit_how>>

NoResult == [calls |-> << >>, printed |-> "", raised |-> FALSE]

\* directories the main loop is started on
MainDirs ==
    { [exists |-> FALSE, entries |-> << >>],
      [exists |-> TRUE, entries |->
         << [name |-> "Alice", isdir |-> TRUE, files |->
               << [loads |-> TRUE, face_encs |-> <<0>>] >>],
            [name |-> "Bob", isdir |-> TRUE, files |->
               << [loads |-> TRUE, face_encs |-> << >>],
                  [loads |-> TRUE, face_encs |-> <<4>>] >>] >>] }

\* mapping files the main loop is started on: none, one that holds a JSON
\* array, and one that maps Alice and not Bob
MainMappingFiles ==
    { [readable |-> FALSE, json |-> EmptyDict],
      [readable |-> TRUE, json |-> NotADict],
      [readable |-> TRUE, json |->
         [dict |-> TRUE, items |->
            [n \in {"Alice"} |-> Str(<<"spotify", "track", "123">>)]]] }

\* state before main is called
Init ==
    /\ pc = "start"
    /\ known_dir \in MainDirs
    /\ mappings_file \in MainMappingFiles
    /\ backend_ok \in BOOLEAN
    /\ client_ok \in BOOLEAN
    /\ known_encodings = << >>
    /\ known_names = << >>
    /\ mappings = EmptyDict
    /\ last_seen = << >>
    /\ cap = "none"
    /\ frame = << >>
    /\ names = << >>
    /\ idx = 1
    /\ now = 0
    /\ result = NoResult
    /\ played = [l \in Labels |-> << >>]
    /\ last_printed = [l \in Labels |-> ""]
    /\ stamped = [l \in Labels |-> << >>]
    /\ exit_how = "running"

\* app.py:56 with faces.py:40-43
LoadKnownFaces ==
    /\ pc = "start"
    /\ IF backend_ok
       THEN /\ known_encodings' = load_known_faces(known_dir)[1]
            /\ known_names' = load_known_faces(known_dir)[2]
            /\ pc' = "loaded"
            /\ UNCHANGED exit_how
       ELSE /\ pc' = "done"
            /\ exit_how' = "raised"
            /\ UNCHANGED <<known_encodings, known_names>>
    /\ UNCHANGED <<known_dir, mappings_file, backend_ok, client_ok, mappings,
                   last_seen, cap, frame, names, idx, now, result, played,
                   last_printed,
                   stamped>>

\* app.py:59 with spotify_client.py:54-92
NewSpotifyClient ==
    /\ pc = "loaded"
    /\ IF client_ok
       THEN /\ mappings' = load_mappings(mappings_file)
            /\ pc' = "client"
            /\ UNCHANGED exit_how
       ELSE /\ pc' = "done"
            /\ exit_how' = "raised"
            /\ UNCHANGED mappings
    /\ UNCHANGED <<known_dir, mappings_file, backend_ok, client_ok,
                   known_encodings, known_names, last_seen, cap, frame,
                   names, idx, now, result, played, last_printed, stamped>>

\* app.py:63: cv2.VideoCapture(0) takes the camera, or fails to
OpenCamera ==
    /\ pc = "client"
    /\ \E opened \in BOOLEAN :
         cap' = IF opened THEN "acquired" ELSE "unopened"
    /\ pc' = "opened"
    /\ UNCHANGED <<known_dir, mappings_file, backend_ok, client_ok,
                   known_encodings, known_names, mappings, last_seen, frame,
                   names, idx, now, result, played, last_printed, stamped,
                   exit_how>>

\* app.py:64-68: the isOpened test, then the try is entered
CheckOpened ==
    /\ pc = "opened"
    /\ IF cap = "acquired"
       THEN pc' = "read" /\ UNCHANGED exit_how
       ELSE pc' = "done" /\ exit_how' = "returned"
    /\ UNCHANGED <<known_dir, mappings_file, backend_ok, client_ok,
                   known_encodings, known_names, mappings, last_seen, cap,
                   frame, names, idx, now, result, played, last_printed,
                   stamped>>

\* KeyboardInterrupt raised where no handler of main covers it: before the
\* try (app.py:50-67), inside the finally before cap.release() has run
\* (app.py:90-91) or after it (app.py:92).  It leaves main with the camera
\* as it is.
InterruptOutsideTry ==
    /\ pc \in {"start", "loaded", "client", "opened", "finally", "cleanup"}
    /\ pc' = "done"
    /\ exit_how' = "interrupt"
    /\ UNCHANGED <<known_dir, mappings_file, backend_ok, client_ok,
                   known_encodings, known_names, mappings, last_seen, cap,
                   frame, names, idx, now, result, played, last_printed,
                   stamped>>

\* frames the main loop is run on: faces that match Alice first (4), Bob
\* only (8) and nobody (14) in the registry of MainDirs
MainFrames == SeqsUpTo({4, 8, 14}, MaxFaces)

\* app.py:70-74, with the camera delivering frames of the set FS
ReadFrameFrom(FS) ==
    /\ pc = "read"
    /\ \E ret \in BOOLEAN :
         IF ret
         THEN \E fr \in FS :
                /\ frame' = fr
                /\ names' = recognize_faces(fr, known_encodings, known_names)
                /\ idx' = 1
                /\ pc' = "for"
                /\ UNCHANGED exit_how
         ELSE /\ pc' = "finally"
              /\ exit_how' = "unreadable frame"
              /\ UNCHANGED <<frame, names, idx>>
    /\ UNCHANGED <<known_dir, mappings_file, backend_ok, client_ok,
                   known_encodings, known_names, mappings, last_seen, cap,
                   now, result, played, last_printed, stamped>>

\* app.py:70-74 in the main loop
ReadFrame == ReadFrameFrom(MainFrames)

\* app.py:70-74 on any frame
ReadAnyFrame == ReadFrameFrom(Frames)

\* app.py:76-79: the next name, the clock sample and the cooldown test
Check ==
    /\ pc = "for"
    /\ idx <= Len(names)
    /\ \E t \in now..MaxTime :
         /\ now' = t
         /\ IF eligible(last_seen, names[idx], t)
            THEN pc' = "play" /\ UNCHANGED idx
            ELSE pc' = "for" /\ idx' = idx + 1
    /\ UNCHANGED <<known_dir, mappings_file, backend_ok, client_ok,
                   known_encodings, known_names, mappings, last_seen, cap,
                   frame, names, result, played,
                   last_printed, stamped, exit_how>>

\* app.py:81
PlayFor ==
    /\ pc = "play"
    /\ \E api_ok \in BOOLEAN :
         LET r == play_for(mappings, names[idx], api_ok) IN
         /\ result' = r
         /\ played' = [played EXCEPT ![names[idx]] = Append(@, now)]
         /\ last_printed' = [last_printed EXCEPT ![names[idx]] = r.printed]
         /\ IF r.raised
            THEN pc' = "finally" /\ exit_how' = "raised"
            ELSE pc' = "stamp" /\ UNCHANGED exit_how
    /\ UNCHANGED <<known_dir, mappings_file, backend_ok, client_ok,
                   known_encodings, known_names, mappings, last_seen, cap,
                   frame, names, idx, now, stamped>>

\* the stamp replacing the table instead of updating it
Stamp_reset ==
    /\ pc = "stamp"
    /\ last_seen' = (names[idx] :> now)
    /\ stamped' = [l \in Labels |->
                      IF l = names[idx] THEN Append(stamped[l], now)
                      ELSE << >>]
    /\ idx' = idx + 1
    /\ pc' = "for"
    /\ UNCHANGED <<known_dir, mappings_file, backend_ok, client_ok,
                   known_encodings, known_names, mappings, cap, frame, names,
                   now, result, played, last_printed, exit_how>>

\* app.py:82
Stamp ==
    /\ pc = "stamp"
    /\ last_seen' = (names[idx] :> now) @@ last_seen
    /\ stamped' = [stamped EXCEPT ![names[idx]] = Append(@, now)]
    /\ idx' = idx + 1
    /\ pc' = "for"
    /\ UNCHANGED <<known_dir, mappings_file, backend_ok, client_ok,
                   known_encodings, known_names, mappings, cap, frame, names,
                   now, result, played, last_printed, exit_how>>

\* app.py:85-87
Show ==
    /\ pc = "for"
    /\ idx > Len(names)
    /\ \E quit \in BOOLEAN :
         IF quit
         THEN pc' = "finally" /\ exit_how' = "quit"
         ELSE pc' = "read" /\ UNCHANGED exit_how
    /\ UNCHANGED <<known_dir, mappings_file, backend_ok, client_ok,
                   known_encodings, known_names, mappings, last_seen, cap,
                   frame, names, idx, now, result, played,
                   last_printed, stamped>>

\* app.py:88-89: KeyboardInterrupt raised inside the try
Interrupt ==
    /\ pc \in {"read", "for", "play", "stamp"}
    /\ pc' = "finally"
    /\ exit_how' = "interrupt"
    /\ UNCHANGED <<known_dir, mappings_file, backend_ok, client_ok,
                   known_encodings, known_names, mappings, last_seen, cap,
                   frame, names, idx, now, result, played,
                   last_printed, stamped>>

\* app.py:68-92: any other exception raised by a library call inside the try
\* (cap.read, the recognizer, imshow, waitKey) leaves through the finally
Fault ==
    /\ pc \in {"read", "for"}
    /\ pc' = "finally"
    /\ exit_how' = "raised"
    /\ UNCHANGED <<known_dir, mappings_file, backend_ok, client_ok,
                   known_encodings, known_names, mappings, last_seen, cap,
                   frame, names, idx, now, result, played,
                   last_printed, stamped>>

\* app.py:90-91: the finally clause releases the camera
Finally ==
    /\ pc = "finally"
    /\ cap' = "released"
    /\ pc' = "cleanup"
    /\ UNCHANGED <<known_dir, mappings_file, backend_ok, client_ok,
                   known_encodings, known_names, mappings, last_seen, frame,
                   names, idx, now, result, played, last_printed, stamped,
                   exit_how>>

\* app.py:92: cv2.destroyAllWindows(), then main ends as it was ending
DestroyWindows ==
    /\ pc = "cleanup"
    /\ pc' = "done"
    /\ UNCHANGED <<known_dir, mappings_file, backend_ok, client_ok,
                   known_encodings, known_names, mappings, last_seen, cap,
                   frame, names, idx, now, result, played, last_printed,
                   stamped, exit_how>>

Next ==
    \/ LoadKnownFaces
    \/ NewSpotifyClient
    \/ OpenCamera
    \/ CheckOpened
    \/ InterruptOutsideTry
    \/ ReadFrame
    \/ Check
    \/ PlayFor
    \/ Stamp
    \/ Show
    \/ Interrupt
    \/ Fault
    \/ Finally
    \/ DestroyWindows

Spec == Init /\ [][Next]_vars

\* ------------------------------------------------- specifications of the parts
\* a directory with one reference image of one person
DirOf(n) ==
    [exists |-> TRUE, entries |->
       << [name |-> n, isdir |-> TRUE, files |->
             << [loads |-> TRUE, face_encs |-> <<0>>] >>] >>]

\* load_known_faces on every directory of DirInputs
InitLoader ==
    /\ pc = "start"
    /\ known_dir \in DirInputs
    /\ mappings_file = [readable |-> FALSE, json |-> EmptyDict]
    /\ backend_ok \in BOOLEAN
    /\ client_ok = TRUE
    /\ known_encodings = << >>
    /\ known_names = << >>
    /\ mappings = EmptyDict
    /\ last_seen = << >>
    /\ cap = "none"
    /\ frame = << >>
    /\ names = << >>
    /\ idx = 1
    /\ now = 0
    /\ result = NoResult
    /\ played = [l \in Labels |-> << >>]
    /\ last_printed = [l \in Labels |-> ""]
    /\ stamped = [l \in Labels |-> << >>]
    /\ exit_how = "running"

NextLoader == LoadKnownFaces

SpecLoader == InitLoader /\ [][NextLoader]_vars

\* recognize_faces on every frame of Frames against every registry the loader
\* can return; main is about to read its first frame
InitRecognizer ==
    /\ pc = "read"
    /\ known_dir \in DirInputs
    /\ mappings_file = [readable |-> FALSE, json |-> EmptyDict]
    /\ backend_ok = TRUE
    /\ client_ok = TRUE
    /\ known_encodings = load_known_faces(known_dir)[1]
    /\ known_names = load_known_faces(known_dir)[2]
    /\ mappings = EmptyDict
    /\ last_seen = << >>
    /\ cap = "acquired"
    /\ frame = << >>
    /\ names = << >>
    /\ idx = 1
    /\ now = 0
    /\ result = NoResult
    /\ played = [l \in Labels |-> << >>]
    /\ last_printed = [l \in Labels |-> ""]
    /\ stamped = [l \in Labels |-> << >>]
    /\ exit_how = "running"

NextRecognizer == ReadAnyFrame

SpecRecognizer == InitRecognizer /\ [][NextRecognizer]_vars

\* play_for on every mapping file and every label; main has recognized the
\* label and found it eligible
InitPlay ==
    /\ pc = "play"
    /\ \E n \in Labels :
         /\ known_dir = DirOf(n)
         /\ known_names = <<n>>
         /\ names = <<n>>
    /\ mappings_file \in MappingFiles
    /\ backend_ok = TRUE
    /\ client_ok = TRUE
    /\ known_encodings = <<0>>
    /\ mappings = load_mappings(mappings_file)
    /\ last_seen = << >>
    /\ cap = "acquired"
    /\ frame = <<0>>
    /\ idx = 1
    /\ now \in 0..MaxTime
    /\ result = NoResult
    /\ played = [l \in Labels |-> << >>]
    /\ last_printed = [l \in Labels |-> ""]
    /\ stamped = [l \in Labels |-> << >>]
    /\ exit_how = "running"

NextPlay == PlayFor

SpecPlay == InitPlay /\ [][NextPlay]_vars

\* ------------------------------------------------------------------ claims
\* the step of the main loop that takes the next name and tests the cooldown
CheckStep == pc = "for" /\ idx <= Len(names) /\ pc' \in {"for", "play"}

\* C1: two consecutive play_for calls for the same label are made at sampled
\* times at least COOLDOWN_SECONDS apart.
C1_CooldownWindow ==
    \A l \in Labels : \A i \in 1..(Len(played[l]) - 1) :
        played[l][i + 1] - played[l][i] >= COOLDOWN_SECONDS

\* a label has been played twice, and the frame shows it on two faces
C1_Witness ==
    \E l \in Labels :
        /\ Len(played[l]) >= 2
        /\ Len(names) = 2 /\ names[1] = l /\ names[2] = l

\* C2 as stated: a label whose last trigger is 10 seconds or more ago
\* (exactly 10 included) is played when the loop reaches it.
C2_Original ==
    [][(CheckStep /\ names[idx] \in DOMAIN last_seen
          /\ now' - last_seen[names[idx]] >= COOLDOWN_SECONDS)
       => pc' = "play"]_vars

\* C2 amended: a label whose last trigger is more than 10 seconds ago is
\* played when the loop reaches it; at exactly 10 seconds it is not.
C2_Amended ==
    [][(CheckStep /\ names[idx] \in DOMAIN last_seen)
       => /\ (now' - last_seen[names[idx]] > COOLDOWN_SECONDS => pc' = "play")
          /\ (now' - last_seen[names[idx]] = COOLDOWN_SECONDS => pc' = "for")
      ]_vars

\* play_for is about to be called for a label stamped more than 10 seconds ago
C2_Witness ==
    /\ pc = "play"
    /\ names[idx] \in DOMAIN last_seen
    /\ now - last_seen[names[idx]] > COOLDOWN_SECONDS

\* C3: a label without an entry in last_seen is played when the loop reaches
\* it, at any time and whatever the other entries.
C3_AbsentEligible ==
    [][(CheckStep /\ names[idx] \notin DOMAIN last_seen) => pc' = "play"]_vars

\* play_for is about to be called, late, for a label without an entry while
\* another label has one
C3_Witness ==
    /\ pc = "play"
    /\ names[idx] \notin DOMAIN last_seen
    /\ now > COOLDOWN_SECONDS
    /\ DOMAIN last_seen # {}

\* the last play_for call for l failed in the playback API
LastFailed(l) == last_printed[l] = "Spotify API error"

\* C4: a failing start_playback does not leave play_for: main goes on to the
\* stamp and the loop, and the label is played again exactly when it is
\* recognized more than the cooldown after the failed attempt.
C4_ApiFailureContained ==
    [][/\ (pc = "play" /\ played' # played /\ result'.calls # << >>
             /\ result'.printed = "Spotify API error")
          => (pc' = "stamp" /\ ~result'.raised /\ exit_how' = "running")
       /\ (pc = "stamp" /\ pc' = "for" /\ result.printed = "Spotify API error")
          => (names[idx] \in DOMAIN last_seen'
                /\ last_seen'[names[idx]] = now /\ exit_how' = "running")
       /\ (CheckStep /\ LastFailed(names[idx]))
          => LET t == played[names[idx]][Len(played[names[idx]])] IN
             (pc' = "play") <=> (now' - t > COOLDOWN_SECONDS)
      ]_vars

\* a label whose last attempt failed is about to be tried again
C4_Witness ==
    /\ pc = "play"
    /\ LastFailed(names[idx])
    /\ stamped[names[idx]] # << >>
    /\ exit_how = "running"

\* C5: when main has ended, a camera it acquired has been released; the ends
\* by quit, unreadable frame and interrupt never leave it acquired.
C5_CameraReleased ==
    pc = "done" => cap # "acquired"

\* the keys of self.mappings; a value that is not a dict has none
Keys(m) == IF m.dict THEN DOMAIN m.items ELSE {}

\* C6: play_for for a name that is not a key of the mapping makes no
\* start_playback call, raises nothing and reports the missing mapping.
C6_NoMappingNoCall ==
    (pc \in {"stamp", "finally"} /\ names[idx] \notin Keys(mappings))
    => /\ result.calls = << >>
       /\ ~result.raised
       /\ result.printed = "No mapping found"

\* the URI begins with 'spotify:track:'
IsTrackUri(u) == Len(u) >= 3 /\ u[1] = "spotify" /\ u[2] = "track"

\* C7: play_for for a name mapped to a non-empty URI makes exactly one
\* start_playback call: uris=[uri] without context for a track URI,
\* context_uri=uri without track list for any other URI.
C7_OneCallByPrefix ==
    (pc = "stamp" /\ names[idx] \in Keys(mappings)
        /\ mappings.items[names[idx]].isstr
        /\ mappings.items[names[idx]].uri # << >>)
    => LET u == mappings.items[names[idx]].uri IN
       /\ Len(result.calls) = 1
       /\ IsTrackUri(u) =>
            result.calls[1] = [uris |-> <<<<u>>>>, context_uri |-> << >>]
       /\ ~IsTrackUri(u) =>
            result.calls[1] = [uris |-> << >>, context_uri |-> <<u>>]

\* play_for has returned for a name mapped to a track URI
C7_Witness ==
    /\ pc = "stamp"
    /\ names[idx] \in Keys(mappings)
    /\ mappings.items[names[idx]].isstr
    /\ IsTrackUri(mappings.items[names[idx]].uri)
    /\ Len(result.calls) = 1

\* indices of the known encodings within tolerance of e
Matching(e) ==
    {i \in 1..Len(known_encodings) :
        (IF known_encodings[i] >= e THEN known_encodings[i] - e
                                    ELSE e - known_encodings[i]) <= Tolerance}

MatchedFaces == SelectSeq(frame, LAMBDA e : Matching(e) # {})

LowestIndex(S) == CHOOSE i \in S : \A j \in S : i <= j

\* C8: with a non-empty registry the result of recognize_faces holds, in face
\* order, the label at the lowest matching index for each face that matches
\* and nothing for the others; it is empty for a frame without faces and
\* never longer than the number of faces.
C8_FirstMatchPerFace ==
    known_encodings # << >> =>
        /\ Len(names) = Len(MatchedFaces)
        /\ \A k \in 1..Len(MatchedFaces) :
              names[k] = known_names[LowestIndex(Matching(MatchedFaces[k]))]
        /\ Len(names) <= Len(frame)
        /\ frame = << >> => names = << >>

\* a frame with a face that matches nobody and a face that matches two
\* people, the nearer of whom is not the first
C8_Witness ==
    /\ pc = "for"
    /\ \E k \in 1..Len(frame) : Matching(frame[k]) = {}
    /\ \E k \in 1..Len(frame) : \E i, j \in Matching(frame[k]) :
          /\ i < j
          /\ known_names[i] # known_names[j]
          /\ known_encodings[j] = frame[k]
          /\ known_encodings[i] # frame[k]

\* the encoding and label a file contributes
RECURSIVE FilePairs(_, _)
FilePairs(files, person) ==
    IF files = << >> THEN << >>
    ELSE (IF Head(files).loads /\ Len(Head(files).face_encs) > 0
          THEN << <<Head(files).face_encs[1], person>> >>
          ELSE << >>) \o FilePairs(Tail(files), person)

RECURSIVE DirPairs(_)
DirPairs(entries) ==
    IF entries = << >> THEN << >>
    ELSE (IF Head(entries).isdir
          THEN FilePairs(Head(entries).files, Head(entries).name)
          ELSE << >>) \o DirPairs(Tail(entries))

\* C9: the two lists load_known_faces returns have the same length, and
\* entry i of both is the encoding and the label of the i-th file that
\* loaded and showed a face; other files contribute to neither list.
C9_ParallelLists ==
    pc = "loaded" =>
        /\ Len(known_encodings) = Len(known_names)
        /\ LET expected == IF known_dir.exists
                           THEN DirPairs(known_dir.entries) ELSE << >> IN
           /\ Len(known_encodings) = Len(expected)
           /\ \A i \in 1..Len(expected) :
                 <<known_encodings[i], known_names[i]>> = expected[i]

\* a directory with a file that fails, a file without a face and a file
\* with a face has been loaded
C9_Witness ==
    /\ pc = "loaded"
    /\ known_names # << >>
    /\ \E i \in 1..Len(known_dir.entries) :
         \E j \in 1..Len(known_dir.entries[i].files) :
            ~known_dir.entries[i].files[j].loads
    /\ \E i \in 1..Len(known_dir.entries) :
         \E j \in 1..Len(known_dir.entries[i].files) :
            /\ known_dir.entries[i].files[j].loads
            /\ known_dir.entries[i].files[j].face_encs = << >>

\* C10: the keys of last_seen are labels of the registry; an entry is never
\* removed; last_seen is written only by the stamp that follows a play_for
\* call, and when the loop turns to the next label every play_for call that
\* returned has been stamped.
C10_StampFollowsPlay ==
    /\ [](/\ DOMAIN last_seen \subseteq
               {known_names[i] : i \in 1..Len(known_names)}
          /\ \A l \in Labels :
               /\ l \in DOMAIN last_seen <=> stamped[l] # << >>
               /\ l \in DOMAIN last_seen =>
                     last_seen[l] = stamped[l][Len(stamped[l])]
               /\ pc \in {"read", "for", "play"} => stamped[l] = played[l]
               /\ pc = "stamp" =>
                     played[l] =
                        IF l = names[idx] THEN Append(stamped[l], now)
                                          ELSE stamped[l])
    /\ [][/\ DOMAIN last_seen \subseteq DOMAIN last_seen'
          /\ last_seen' # last_seen => pc = "stamp"]_vars

\* both labels have an entry and one of them has been stamped twice
C10_Witness ==
    /\ DOMAIN last_seen = Labels
    /\ \E l \in Labels : Len(stamped[l]) >= 2

====
